---- MODULE Spec2Model ----
(***************************************************************************)
(* A model of aerofiles/igc/reader.py: the line decoders of                *)
(* LowLevelReader, its generator LowLevelReader.next, the extension        *)
(* resolution of B and K records, and the aggregation loop Reader.read.    *)
(*                                                                         *)
(* Python values are represented as follows.                               *)
(*   str            a TLA+ string (Len, SubSeq and \o work on strings)     *)
(*   int            an integer                                             *)
(*   None / value   None is <<>> and a value v that may be None is <<v>>   *)
(*   list           a sequence                                             *)
(*   dict           a function from strings (a record)                     *)
(*   a call         Ok(v) when it returns v, Raise(e) when it raises the   *)
(*                  exception whose class is named by the string e         *)
(***************************************************************************)
EXTENDS Integers, Sequences, FiniteSets, TLC

(***************************************************************************)
(* Python built-ins used by the reader                                     *)
(***************************************************************************)
None == <<>>

Some(v) == <<v>>

Ok(v) == [ok |-> TRUE, val |-> v]

Raise(e) == [ok |-> FALSE, exc |-> e]

\* F applied to what the call r returned, or the exception r raised
Then(r, F(_)) == IF r.ok THEN F(r.val) ELSE r

Max(a, b) == IF a >= b THEN a ELSE b

Min(a, b) == IF a <= b THEN a ELSE b

\* The index a slice bound denotes in a string of length n: a negative bound
\* counts from the end, and every bound is clamped into 0..n.
Clamp(i, n) == IF i < 0 THEN Max(i + n, 0) ELSE Min(i, n)

\* s[a:b]
Slice(s, a, b) ==
    LET lo == Clamp(a, Len(s))
        hi == Clamp(b, Len(s))
    IN  IF lo >= hi THEN "" ELSE SubSeq(s, lo + 1, hi)

\* s[a:]
SliceFrom(s, a) == Slice(s, a, Len(s))

\* s[i], which raises IndexError outside -len(s) .. len(s)-1
Index(s, i) ==
    IF i >= Len(s) \/ i < 0 - Len(s) THEN Raise("IndexError")
    ELSE IF i < 0 THEN Ok(SubSeq(s, Len(s) + i + 1, Len(s) + i + 1))
    ELSE Ok(SubSeq(s, i + 1, i + 1))

Whitespace == {" ", "\n", "\t", "\r"}

RECURSIVE LStrip(_)
LStrip(s) ==
    IF Len(s) > 0 /\ SubSeq(s, 1, 1) \in Whitespace THEN LStrip(SubSeq(s, 2, Len(s)))
    ELSE s

RECURSIVE RStrip(_)
RStrip(s) ==
    IF Len(s) > 0 /\ SubSeq(s, Len(s), Len(s)) \in Whitespace
    THEN RStrip(SubSeq(s, 1, Len(s) - 1))
    ELSE s

\* s.strip()
Strip(s) == LStrip(RStrip(s))

Digits == {"0", "1", "2", "3", "4", "5", "6", "7", "8", "9"}

DigitValue(c) ==
    CASE c = "0" -> 0 [] c = "1" -> 1 [] c = "2" -> 2 [] c = "3" -> 3
      [] c = "4" -> 4 [] c = "5" -> 5 [] c = "6" -> 6 [] c = "7" -> 7
      [] c = "8" -> 8 [] c = "9" -> 9

AllDigits(s) == \A k \in 1..Len(s) : SubSeq(s, k, k) \in Digits

RECURSIVE Decimal(_)
Decimal(s) ==
    IF Len(s) = 0 THEN 0
    ELSE 10 * Decimal(SubSeq(s, 1, Len(s) - 1)) + DigitValue(SubSeq(s, Len(s), Len(s)))

\* int() of a run of digits d after its sign
ParseDigits(d, negative) ==
    IF Len(d) = 0 \/ ~AllDigits(d) THEN Raise("ValueError")
    ELSE IF negative THEN Ok(0 - Decimal(d))
    ELSE Ok(Decimal(d))

\* int() of a string t without surrounding whitespace
ParseSigned(t) ==
    IF Len(t) > 0 /\ SubSeq(t, 1, 1) \in {"+", "-"}
    THEN ParseDigits(SubSeq(t, 2, Len(t)), SubSeq(t, 1, 1) = "-")
    ELSE ParseDigits(t, FALSE)

\* int(s): surrounding whitespace is ignored, one sign is allowed, and what is
\* left must be a non-empty run of digits, or ValueError is raised.
PyInt(s) == ParseSigned(Strip(s))

\* The position (from 0) of the first sep in s at or after position k, or -1.
RECURSIVE Find(_, _, _)
Find(s, sep, k) ==
    IF k >= Len(s) THEN -1
    ELSE IF SubSeq(s, k + 1, k + 1) = sep THEN k
    ELSE Find(s, sep, k + 1)

RECURSIVE Split(_, _)
\* s.split(sep) when the first sep of s is at position k (-1: there is none)
SplitAt(s, sep, k) ==
    IF k < 0 THEN <<s>>
    ELSE <<Slice(s, 0, k)>> \o Split(SliceFrom(s, k + 1), sep)

\* s.split(sep) for a one-character separator
Split(s, sep) == SplitAt(s, sep, Find(s, sep, 0))

\* d.update(e) for dicts d and e
Update(d, e) == e @@ d

\* d without the keys ks
Without(d, ks) == [k \in (DOMAIN d) \ ks |-> d[k]]

(***************************************************************************)
(* datetime.time and datetime.date                                         *)
(***************************************************************************)
\* datetime.time(h, m, s)
Time(h, m, s) ==
    IF h \in 0..23 /\ m \in 0..59 /\ s \in 0..59
    THEN Ok([hour |-> h, minute |-> m, second |-> s])
    ELSE Raise("ValueError")

IsLeap(y) == (y % 4 = 0 /\ y % 100 # 0) \/ y % 400 = 0

DaysInMonth(y, m) ==
    IF m = 2 THEN (IF IsLeap(y) THEN 29 ELSE 28)
    ELSE IF m \in {4, 6, 9, 11} THEN 30 ELSE 31

\* datetime.date(y, m, d)
Date(y, m, d) ==
    IF y \in 1..9999 /\ m \in 1..12 /\ d >= 1 /\ d <= DaysInMonth(y, m)
    THEN Ok([year |-> y, month |-> m, day |-> d])
    ELSE Raise("ValueError")

\* LowLevelReader.decode_time
decode_time(time_str) ==
    IF Len(time_str) # 6 THEN Raise("ValueError")
    ELSE Then(PyInt(Slice(time_str, 0, 2)), LAMBDA h :
         Then(PyInt(Slice(time_str, 2, 4)), LAMBDA m :
         Then(PyInt(Slice(time_str, 4, 6)), LAMBDA s :
         Time(h, m, s))))

\* LowLevelReader.decode_date; today_year is datetime.date.today().year
decode_date(date_str, today_year) ==
    LET current_year_yyyy == today_year
        current_year_yy == current_year_yyyy % 100
        current_century == current_year_yyyy - current_year_yy
    IN  IF Len(date_str) # 6 THEN Raise("ValueError")
        ELSE Then(PyInt(Slice(date_str, 0, 2)), LAMBDA dd :
             Then(PyInt(Slice(date_str, 2, 4)), LAMBDA mm :
             Then(PyInt(Slice(date_str, 4, 6)), LAMBDA yy :
             Date(IF yy < current_year_yy THEN current_century + yy
                  ELSE current_century - 100 + yy,
                  mm, dd))))

\* LowLevelReader.decode_latitude
decode_latitude(lat_string) == lat_string

\* LowLevelReader.decode_longitude
decode_longitude(lon_string) == lon_string

(***************************************************************************)
(* LowLevelReader: the decoders of one line                                *)
(***************************************************************************)
\* LowLevelReader.decode_A_record
decode_A_record(line) ==
    LET id_addition == IF Len(line) = 7 THEN None ELSE Some(Strip(SliceFrom(line, 7)))
    IN  Ok([type |-> "A",
            value |-> ("id-addition" :> id_addition)
                      @@ [manufacturer |-> Slice(line, 0, 3),
                          id |-> Slice(line, 3, 6)]])

\* LowLevelReader.decode_B_record
decode_B_record(line) ==
    Then(decode_time(Slice(line, 1, 7)), LAMBDA time :
    Then(Index(line, 24), LAMBDA validity :
    Then(PyInt(Slice(line, 25, 30)), LAMBDA pressure_alt :
    Then(PyInt(Slice(line, 30, 35)), LAMBDA gps_alt :
    Ok([type |-> "B",
        value |-> [time |-> time,
                   lat |-> decode_latitude(Slice(line, 7, 15)),
                   lon |-> decode_longitude(Slice(line, 15, 24)),
                   validity |-> validity,
                   pressure_alt |-> pressure_alt,
                   gps_alt |-> gps_alt,
                   start_index_extensions |-> 35,
                   extensions_string |-> Strip(SliceFrom(line, 35))]])))))

\* The loop of LowLevelReader.process_B_record from the k-th extension on:
\* b_record.update({extension['extension_type']: int(ext[start_byte:end_byte])})
RECURSIVE process_B_extensions(_, _, _, _, _)
process_B_extensions(b_record, extensions, k, i, ext) ==
    IF k > Len(extensions) THEN Ok(b_record)
    ELSE LET extension == extensions[k]
             start_byte == extension.bytes[1] - i
             end_byte == extension.bytes[2] - i
         IN  Then(PyInt(Slice(ext, start_byte, end_byte)), LAMBDA field :
             process_B_extensions(
                 Update(b_record, extension.extension_type :> field),
                 extensions, k + 1, i, ext))

\* LowLevelReader.process_B_record; iterating over None raises TypeError
process_B_record(decoded_b_record, fix_record_extensions) ==
    LET i == decoded_b_record.start_index_extensions
        ext == decoded_b_record.extensions_string
        b_record == Without(decoded_b_record,
                            {"start_index_extensions", "extensions_string"})
    IN  IF fix_record_extensions = None THEN Raise("TypeError")
        ELSE process_B_extensions(b_record, fix_record_extensions[1], 1, i, ext)

\* LowLevelReader.decode_C_record
decode_C_record(line) == Ok([type |-> "C", value |-> None])

\* LowLevelReader.decode_D_record
decode_D_record(line) ==
    Then(Index(line, 1), LAMBDA qualifier :
    IF qualifier \notin {"1", "2"} THEN Raise("ValueError")
    ELSE Ok([type |-> "D",
             value |-> [qualifier |-> IF qualifier = "1" THEN "GPS" ELSE "DGPS",
                        station_id |-> Slice(line, 2, 6)]]))

\* LowLevelReader.decode_E_record
decode_E_record(line) == Ok([type |-> "E", value |-> None])

\* The satellite loop of decode_F_record: no_satelites two-character slices
\* of the line from starting_byte on.
RECURSIVE satelites_from(_, _, _)
satelites_from(line, starting_byte, no_satelites) ==
    IF no_satelites <= 0 THEN <<>>
    ELSE <<Slice(line, starting_byte, starting_byte + 2)>>
         \o satelites_from(line, starting_byte + 2, no_satelites - 1)

\* LowLevelReader.decode_F_record. no_satelites is computed with "/": under
\* true division (Python 3) it is a float and range(no_satelites) raises
\* TypeError; under floor division (Python 2) it is an int.
decode_F_record(line, true_division) ==
    Then(decode_time(Slice(line, 1, 7)), LAMBDA time :
    IF (Len(Strip(line)) - 7) % 2 # 0 THEN Raise("ValueError")
    ELSE IF true_division THEN Raise("TypeError")
    ELSE Ok([type |-> "F",
             value |-> [time |-> time,
                        satelites |-> satelites_from(line, 7,
                                          (Len(Strip(line)) - 7) \div 2)]]))

\* LowLevelReader.decode_G_record
decode_G_record(line) == Ok([type |-> "G", value |-> SliceFrom(Strip(line), 1)])

\* LowLevelReader.decode_L_record
decode_L_record(line) ==
    Ok([type |-> "L",
        value |-> [source |-> Slice(line, 1, 4),
                   comment |-> Strip(SliceFrom(line, 4))]])

\* The loop of decode_extension_record from block extension_index on.
RECURSIVE extensions_from(_, _, _)
extensions_from(line, extension_index, no_extensions) ==
    IF extension_index >= no_extensions THEN Ok(<<>>)
    ELSE LET extension_str == Slice(line, extension_index * 7 + 3,
                                    (extension_index + 1) * 7 + 3)
             tlc == Slice(extension_str, 4, 7)
         IN  Then(PyInt(Slice(extension_str, 0, 2)), LAMBDA start_byte :
             Then(PyInt(Slice(extension_str, 2, 4)), LAMBDA end_byte :
             Then(extensions_from(line, extension_index + 1, no_extensions),
                  LAMBDA rest :
             Ok(<<[bytes |-> <<start_byte, end_byte>>, extension_type |-> tlc]>>
                \o rest))))

\* A decoder whose length check counts the whitespace that ends the line.
decode_extension_record_untrimmed(line) ==
    Then(PyInt(Slice(line, 1, 3)), LAMBDA no_extensions :
    IF no_extensions * 7 + 3 # Len(line) THEN Raise("ValueError")
    ELSE extensions_from(line, 0, no_extensions))

\* LowLevelReader.decode_extension_record
decode_extension_record(line) ==
    Then(PyInt(Slice(line, 1, 3)), LAMBDA no_extensions :
    IF no_extensions * 7 + 3 # Len(Strip(line)) THEN Raise("ValueError")
    ELSE extensions_from(line, 0, no_extensions))

\* LowLevelReader.decode_I_record
decode_I_record(line) ==
    Then(decode_extension_record(line), LAMBDA extensions :
    Ok([type |-> "I",
        value |-> IF Len(extensions) = 0 THEN None ELSE Some(extensions)]))

\* LowLevelReader.decode_J_record
decode_J_record(line) ==
    Then(decode_extension_record(line), LAMBDA extensions :
    Ok([type |-> "J",
        value |-> IF Len(extensions) = 0 THEN None ELSE Some(extensions)]))

\* LowLevelReader.decode_K_record
decode_K_record(line) ==
    Then(decode_time(Slice(line, 1, 7)), LAMBDA time :
    Ok([type |-> "K",
        value |-> [time |-> time,
                   value_string |-> SliceFrom(Strip(line), 7),
                   start_index |-> 7]]))

\* The loop of LowLevelReader.process_K_record from the k-th extension on:
\* k_record[extension['extension_type']] = val[start_byte:end_byte]
RECURSIVE process_K_extensions(_, _, _, _, _)
process_K_extensions(k_record, extensions, k, i, val) ==
    IF k > Len(extensions) THEN k_record
    ELSE LET extension == extensions[k]
             start_byte == extension.bytes[1] - i
             end_byte == extension.bytes[2] - i
         IN  process_K_extensions(
                 Update(k_record,
                        extension.extension_type :> Slice(val, start_byte, end_byte)),
                 extensions, k + 1, i, val)

\* LowLevelReader.process_K_record; iterating over None raises TypeError
process_K_record(decoded_k_record, k_record_extensions) ==
    LET i == decoded_k_record.start_index
        t == decoded_k_record.time
        val == decoded_k_record.value_string
    IN  IF k_record_extensions = None THEN Raise("TypeError")
        ELSE Ok(process_K_extensions([time |-> t], k_record_extensions[1], 1, i, val))

(***************************************************************************)
(* LowLevelReader: the H record and its sub-decoders                       *)
(***************************************************************************)
\* s, or None when s is the empty string
NoneIfEmpty(s) == IF s = "" THEN None ELSE Some(s)

\* The shape shared by the one-field sub-decoders:
\*     text = line[start:].strip()
\*     return {key: None} if text == '' else {key: text}
text_field(line, start, key) ==
    Ok(key :> NoneIfEmpty(Strip(SliceFrom(line, start))))

\* LowLevelReader.decode_H_utc_date
decode_H_utc_date(line, today_year) ==
    Then(decode_date(Slice(line, 5, 11), today_year), LAMBDA date :
    Ok([utc_date |-> date]))

\* LowLevelReader.decode_H_fix_accuracy
decode_H_fix_accuracy(line) ==
    IF Strip(SliceFrom(line, 5)) = "" THEN Ok([fix_accuracy |-> None])
    ELSE Then(PyInt(Strip(SliceFrom(line, 5))), LAMBDA fix_accuracy :
         Ok([fix_accuracy |-> Some(fix_accuracy)]))

\* LowLevelReader.decode_H_pilot
decode_H_pilot(line) == text_field(line, 11, "pilot")

\* LowLevelReader.decode_H_copilot
decode_H_copilot(line) == text_field(line, 11, "second_pilot")

\* LowLevelReader.decode_H_glider_model
decode_H_glider_model(line) == text_field(line, 16, "glider_model")

\* LowLevelReader.decode_H_glider_registration
decode_H_glider_registration(line) == text_field(line, 14, "glider_registration")

\* LowLevelReader.decode_H_gps_datum
decode_H_gps_datum(line) == text_field(line, 17, "gps_datum")

\* LowLevelReader.decode_H_firmware_revision
decode_H_firmware_revision(line) == text_field(line, 21, "firmware_revision")

\* LowLevelReader.decode_H_hardware_revision
decode_H_hardware_revision(line) == text_field(line, 21, "hardware_revision")

\* LowLevelReader.decode_H_competition_id
decode_H_competition_id(line) == text_field(line, 19, "competition_id")

\* LowLevelReader.decode_H_competition_class
decode_H_competition_class(line) == text_field(line, 22, "competition_class")

\* decode_H_manufacturer_model once the text is split at its commas
manufacturer_model_of(manufacturer_model) ==
    Ok([manufacturer |-> NoneIfEmpty(manufacturer_model[1]),
        model |-> IF Len(manufacturer_model) = 2
                     /\ LStrip(manufacturer_model[2]) # ""
                  THEN Some(manufacturer_model[2]) ELSE None])

\* LowLevelReader.decode_H_manufacturer_model
decode_H_manufacturer_model(line) ==
    manufacturer_model_of(Split(Strip(SliceFrom(line, 12)), ","))

\* The enumerate loop of decode_H_gps_receiver; the unpacking
\* "manufacturer, model = detail.split(':')" raises ValueError unless the
\* first detail, split at its colons into first, has exactly two parts.
gps_receiver_of(gps_sensor, first) ==
    IF Len(first) # 2 THEN Raise("ValueError")
    ELSE Ok([manufacturer |-> Some(first[1]),
             model |-> Some(first[2]),
             channels |-> IF Len(gps_sensor) >= 2 THEN Some(Strip(gps_sensor[2]))
                          ELSE None,
             max_alt |-> IF Len(gps_sensor) >= 3 THEN Some(Strip(gps_sensor[3]))
                         ELSE None])

\* The details of the GPS receiver: gps_sensor is the text split at its commas
gps_details(gps_sensor) == gps_receiver_of(gps_sensor, Split(gps_sensor[1], ":"))

\* LowLevelReader.decode_H_gps_receiver
decode_H_gps_receiver(line) ==
    Then(Index(line, 5), LAMBDA colon :
    IF colon = ":" THEN gps_details(Split(LStrip(SliceFrom(line, 6)), ","))
    ELSE gps_details(Split(SliceFrom(line, 5), ",")))

\* The details of the pressure sensor: pressure_sensor is the text split at
\* its commas
pressure_details(pressure_sensor) ==
    Ok([manufacturer |-> NoneIfEmpty(pressure_sensor[1]),
        model |-> IF Len(pressure_sensor) >= 2
                  THEN NoneIfEmpty(pressure_sensor[2]) ELSE None,
        max_alt |-> IF Len(pressure_sensor) = 3
                    THEN NoneIfEmpty(pressure_sensor[3]) ELSE None])

\* LowLevelReader.decode_H_pressure_sensor
decode_H_pressure_sensor(line) ==
    Then(Index(line, 19), LAMBDA colon :
    IF colon = ":" THEN pressure_details(Split(Strip(SliceFrom(line, 20)), ","))
    ELSE pressure_details(Split(SliceFrom(line, 19), ",")))

\* The sub-decoder decode_H_record picks for the three letter code tlc
decode_H_value(line, tlc, today_year) ==
    CASE tlc = "DTE" -> decode_H_utc_date(line, today_year)
      [] tlc = "FXA" -> decode_H_fix_accuracy(line)
      [] tlc = "PLT" -> decode_H_pilot(line)
      [] tlc = "CM2" -> decode_H_copilot(line)
      [] tlc = "GTY" -> decode_H_glider_model(line)
      [] tlc = "GID" -> decode_H_glider_registration(line)
      [] tlc = "DTM" -> decode_H_gps_datum(line)
      [] tlc = "RFW" -> decode_H_firmware_revision(line)
      [] tlc = "RHW" -> decode_H_hardware_revision(line)
      [] tlc = "FTY" -> decode_H_manufacturer_model(line)
      [] tlc = "GPS" -> decode_H_gps_receiver(line)
      [] tlc = "PRS" -> decode_H_pressure_sensor(line)
      [] tlc = "CID" -> decode_H_competition_id(line)
      [] tlc = "CCL" -> decode_H_competition_class(line)
      [] OTHER -> Raise("ValueError")

\* LowLevelReader.decode_H_record
decode_H_record(line, today_year) ==
    Then(Index(line, 1), LAMBDA source :
    Then(decode_H_value(line, Slice(line, 2, 5), today_year), LAMBDA value :
    Ok([type |-> "H", value |-> Update(value, [source |-> source])])))

(***************************************************************************)
(* LowLevelReader: dispatch and iteration                                  *)
(***************************************************************************)
\* The record types for which LowLevelReader has a decode_<type>_record
\* attribute; getattr raises AttributeError for any other.
DecoderTypes == {"A", "B", "C", "D", "E", "F", "G", "H", "I", "J", "K", "L"}

\* LowLevelReader.get_decoder_method
get_decoder_method(record_type) ==
    IF record_type \in DecoderTypes THEN Ok(record_type) ELSE Raise("AttributeError")

\* decoder(line) for the decoder get_decoder_method returned
decode(decoder, line, true_division, today_year) ==
    CASE decoder = "A" -> decode_A_record(line)
      [] decoder = "B" -> decode_B_record(line)
      [] decoder = "C" -> decode_C_record(line)
      [] decoder = "D" -> decode_D_record(line)
      [] decoder = "E" -> decode_E_record(line)
      [] decoder = "F" -> decode_F_record(line, true_division)
      [] decoder = "G" -> decode_G_record(line)
      [] decoder = "H" -> decode_H_record(line, today_year)
      [] decoder = "I" -> decode_I_record(line)
      [] decoder = "J" -> decode_J_record(line)
      [] decoder = "K" -> decode_K_record(line)
      [] decoder = "L" -> decode_L_record(line)

\* LowLevelReader.parse_line
parse_line(line, true_division, today_year) ==
    Then(Index(line, 0), LAMBDA record_type :
    Then(get_decoder_method(record_type), LAMBDA decoder :
    decode(decoder, line, true_division, today_year)))

\* A reader that tags an error with the lines taken before its line.
outcome_counting_from_zero(result, n) ==
    IF result.ok THEN [record |-> Some(result.val), error |-> None]
    ELSE [record |-> None,
          error |-> Some([exc |-> result.exc, line_number |-> n - 1])]

\* What LowLevelReader.next yields for what parse_line returned or raised
\* when line_number is n. Every decoder returns a non-empty dict, so
\* "if result" holds whenever parse_line returns.
outcome(result, n) ==
    IF result.ok THEN [record |-> Some(result.val), error |-> None]
    ELSE [record |-> None, error |-> Some([exc |-> result.exc, line_number |-> n])]

\* One turn of the loop of LowLevelReader.next, for the line that makes
\* line_number become n: the pair it yields.
yielded(line, n, true_division, today_year) ==
    outcome(parse_line(line, true_division, today_year), n)

(***************************************************************************)
(* Reader.read: the handling of one yielded record                         *)
(* A frame is the dict of the local variables of Reader.read.              *)
(***************************************************************************)
\* logger_id = line['value']
read_A(frame, value) == Ok([frame EXCEPT !.logger_id = Some(value)])

\* fix_record = LowLevelReader.process_B_record(line['value'], fix_record_extensions)
\* fix_records.append(fix_record)
read_B(frame, value) ==
    Then(process_B_record(value, frame.fix_record_extensions), LAMBDA fix_record :
    Ok([frame EXCEPT !.fix_records = Append(@, fix_record)]))

\* task = line['value']
read_C(frame, value) == Ok([frame EXCEPT !.task = value])

\* A reader that puts a D record ahead of the earlier ones.
read_D_prepending(frame, value) == Ok([frame EXCEPT !.dgps_records = <<value>> \o @])

\* dgps_records.append(line['value'])
read_D(frame, value) == Ok([frame EXCEPT !.dgps_records = Append(@, value)])

\* event_records.append(line['value'])
read_E(frame, value) == Ok([frame EXCEPT !.event_records = Append(@, value)])

\* satellite_records.append(line['value'])
read_F(frame, value) == Ok([frame EXCEPT !.satellite_records = Append(@, value)])

\* security_records.append(line['value'])
read_G(frame, value) == Ok([frame EXCEPT !.security_records = Append(@, value)])

\* A reader whose header keeps the first value of a field.
read_H_keeping(frame, value) == Ok([frame EXCEPT !.header = Update(value, @)])

\* header.update(line['value'])
read_H(frame, value) == Ok([frame EXCEPT !.header = Update(@, value)])

\* A reader whose I record adds its definitions to the active ones.
read_I_appending(frame, value) ==
    Ok([frame EXCEPT !.fix_record_extensions =
            IF @ = None \/ value = None THEN value ELSE Some(@[1] \o value[1])])

\* fix_record_extensions = line['value']
read_I(frame, value) == Ok([frame EXCEPT !.fix_record_extensions = value])

\* k_record_extensions = line['value']
read_J(frame, value) == Ok([frame EXCEPT !.k_record_extensions = value])

\* k_record = LowLevelReader.process_K_record(line['value'], k_record_extensions)
\* k_records.append(k_record)
read_K(frame, value) ==
    Then(process_K_record(value, frame.k_record_extensions), LAMBDA k_record :
    Ok([frame EXCEPT !.k_records = Append(@, k_record)]))

\* comment_records.append(line['value'])
read_L(frame, value) == Ok([frame EXCEPT !.comment_records = Append(@, value)])

\* The if/elif chain of Reader.read on line['type']
read_record(frame, line_type, value) ==
    CASE line_type = "A" -> read_A(frame, value)
      [] line_type = "B" -> read_B(frame, value)
      [] line_type = "C" -> read_C(frame, value)
      [] line_type = "D" -> read_D(frame, value)
      [] line_type = "E" -> read_E(frame, value)
      [] line_type = "F" -> read_F(frame, value)
      [] line_type = "G" -> read_G(frame, value)
      [] line_type = "H" -> read_H(frame, value)
      [] line_type = "I" -> read_I(frame, value)
      [] line_type = "J" -> read_J(frame, value)
      [] line_type = "K" -> read_K(frame, value)
      [] line_type = "L" -> read_L(frame, value)

\* The body of the for loop of Reader.read for one yielded (line, error).
read_body(frame, line, error) ==
    IF error # None THEN Raise("InvalidIGCFileError")
    ELSE read_record(frame, line[1].type, line[1].value)

\* What follows the loop: del header['source'], which raises KeyError when
\* the key is missing, and the dict that is returned.
read_return(frame) ==
    IF "source" \notin DOMAIN frame.header THEN Raise("KeyError")
    ELSE Ok([logger_id |-> frame.logger_id,
             fix_records |-> frame.fix_records,
             task |-> frame.task,
             dgps_records |-> frame.dgps_records,
             event_records |-> frame.event_records,
             satellite_records |-> frame.satellite_records,
             security_records |-> frame.security_records,
             header |-> Without(frame.header, {"source"}),
             k_records |-> frame.k_records,
             comment_records |-> frame.comment_records])

(***************************************************************************)
(* State                                                                   *)
(***************************************************************************)
VARIABLES
    true_division,          \* whether "/" on ints is true division (Python 3)
    fp,                     \* the input: a sequence of lines
    line_number,            \* LowLevelReader.line_number
    exhausted,              \* whether the loop over fp has ended
    outcomes,               \* the pairs LowLevelReader.next has yielded
    logger_id,              \* the local variables of Reader.read
    task,
    fix_record_extensions,
    k_record_extensions,
    header,
    fix_records,
    dgps_records,
    event_records,
    satellite_records,
    security_records,
    k_records,
    comment_records,
    status,                 \* of Reader.read: "reading", "returned", "raised"
    raised,                 \* the class of the exception Reader.read raised
    document,               \* the dict Reader.read returned
    probe,                  \* the argument of a decoder called on its own
    decoded                 \* what that call returned or raised

reader == <<true_division, fp, line_number, exhausted, outcomes>>

locals == <<logger_id, task, fix_record_extensions, k_record_extensions, header,
            fix_records, dgps_records, event_records, satellite_records,
            security_records, k_records, comment_records>>

vars == <<reader, locals, status, raised, document, probe, decoded>>

\* The local variables of Reader.read as one dict.
Frame ==
    [logger_id |-> logger_id,
     task |-> task,
     fix_record_extensions |-> fix_record_extensions,
     k_record_extensions |-> k_record_extensions,
     header |-> header,
     fix_records |-> fix_records,
     dgps_records |-> dgps_records,
     event_records |-> event_records,
     satellite_records |-> satellite_records,
     security_records |-> security_records,
     k_records |-> k_records,
     comment_records |-> comment_records]

\* The local variables become those of the dict frame.
SetFrame(frame) ==
    /\ logger_id' = frame.logger_id
    /\ task' = frame.task
    /\ fix_record_extensions' = frame.fix_record_extensions
    /\ k_record_extensions' = frame.k_record_extensions
    /\ header' = frame.header
    /\ fix_records' = frame.fix_records
    /\ dgps_records' = frame.dgps_records
    /\ event_records' = frame.event_records
    /\ satellite_records' = frame.satellite_records
    /\ security_records' = frame.security_records
    /\ k_records' = frame.k_records
    /\ comment_records' = frame.comment_records

\* The years datetime.date.today() may fall in while a file is read.
Years == {2014, 2026}

\* The inputs of at most n lines, each line one of Lines.
Streams(Lines, n) == UNION {[1..k -> Lines] : k \in 0..n}

\* LowLevelReader.__init__ on the input fp, one of Inputs, and the first
\* lines of Reader.read.
Construct(Inputs) ==
    /\ true_division \in BOOLEAN
    /\ fp \in Inputs
    /\ line_number = 0
    /\ exhausted = FALSE
    /\ outcomes = <<>>
    /\ logger_id = None
    /\ task = None
    /\ fix_record_extensions = None
    /\ k_record_extensions = None
    /\ header = <<>>
    /\ fix_records = <<>>
    /\ dgps_records = <<>>
    /\ event_records = <<>>
    /\ satellite_records = <<>>
    /\ security_records = <<>>
    /\ k_records = <<>>
    /\ comment_records = <<>>
    /\ status = "reading"
    /\ raised = None
    /\ document = None

\* A reader is constructed and no decoder is called on its own.
Start(Inputs) ==
    /\ Construct(Inputs)
    /\ probe = None
    /\ decoded = None

(***************************************************************************)
(* Operations                                                              *)
(***************************************************************************)
\* The pair is yielded and the loop body has handled it: the local variables
\* are those it left, or the exception it raised leaves Reader.read.
Handle(pair, handled) ==
    /\ outcomes' = Append(outcomes, pair)
    /\ IF handled.ok
       THEN SetFrame(handled.val) /\ UNCHANGED <<status, raised>>
       ELSE /\ status' = "raised"
            /\ raised' = Some(handled.exc)
            /\ UNCHANGED locals

\* The loop body of Reader.read runs on the yielded pair.
Turn(frame, pair) == Handle(pair, read_body(frame, pair.record, pair.error))

\* One turn of the for loop of Reader.read: LowLevelReader.next takes the
\* next line of fp, counts it and yields its pair, and the loop body
\* handles the pair.
ReadLine ==
    /\ status = "reading"
    /\ line_number < Len(fp)
    /\ line_number' = line_number + 1
    /\ \E today_year \in Years :
          Turn(Frame, yielded(fp[line_number + 1], line_number + 1,
                              true_division, today_year))
    /\ UNCHANGED <<true_division, fp, exhausted, document, probe, decoded>>

\* Reader.read returns its document or raises what the deletion raised.
Return(returned) ==
    IF returned.ok
    THEN /\ status' = "returned"
         /\ document' = Some(returned.val)
         /\ header' = returned.val.header
         /\ UNCHANGED raised
    ELSE /\ status' = "raised"
         /\ raised' = Some(returned.exc)
         /\ UNCHANGED <<document, header>>

\* fp has ended: the for loop of Reader.read is left, the source key is
\* deleted from the header and the document is returned.
ReadEnd ==
    /\ status = "reading"
    /\ line_number = Len(fp)
    /\ ~exhausted
    /\ exhausted' = TRUE
    /\ Return(read_return(Frame))
    /\ UNCHANGED <<true_division, fp, line_number, outcomes, logger_id, task,
                   fix_record_extensions, k_record_extensions, fix_records,
                   dgps_records, event_records, satellite_records,
                   security_records, k_records, comment_records, probe, decoded>>

\* One turn of the loop of LowLevelReader.next when the reader is iterated
\* on its own: the next line of fp is counted and its pair is yielded.
NextLine ==
    /\ line_number < Len(fp)
    /\ line_number' = line_number + 1
    /\ \E today_year \in Years :
          outcomes' = Append(outcomes,
              yielded(fp[line_number + 1], line_number + 1, true_division, today_year))
    /\ UNCHANGED <<true_division, fp, exhausted, locals, status, raised, document,
                   probe, decoded>>

\* fp has ended: the generator of LowLevelReader.next returns.
NextEnd ==
    /\ line_number = Len(fp)
    /\ ~exhausted
    /\ exhausted' = TRUE
    /\ UNCHANGED <<true_division, fp, line_number, outcomes, locals, status,
                   raised, document, probe, decoded>>

\* Reader.read on one input
Next == ReadLine \/ ReadEnd

\* The most lines an input holds.
MaxLines == 4

(***************************************************************************)
(* Inputs that end a read early: fix and auxiliary records with and        *)
(* without active extension definitions, and a line that does not decode   *)
(***************************************************************************)
\* A B record up to its extensions (35 characters).
FixPrefix == "B1101355206343N00006198WA0058700558"

FailureLines ==
    {"I013638GSP", "I00", "J010810HDT",
     FixPrefix \o "12", FixPrefix, "K1200009",
     "HFPLTPILOT:Bob",
     "B1101355206343N00006198WA0058A00558"}

Init == Start(Streams(FailureLines, MaxLines))

Spec == Init /\ [][Next]_vars

(***************************************************************************)
(* What the claims speak of                                                *)
(***************************************************************************)
\* The k-th pair yielded is a record of type t.
IsRecord(k, t) == outcomes[k].error = None /\ outcomes[k].record[1].type = t

\* The value of the k-th record yielded.
ValueOf(k) == outcomes[k].record[1].value

\* The value of the most recent record of type t among the first k pairs
\* yielded: the definitions an I or J record declared, None when it declared
\* none or when there is no such record.
RECURSIVE Latest(_, _)
Latest(t, k) ==
    IF k = 0 THEN None
    ELSE IF IsRecord(k, t) THEN ValueOf(k)
    ELSE Latest(t, k - 1)

\* The loop of Reader.read has just handled the n-th pair, a record of type t.
JustHandled(n, t) == n > 0 /\ n = line_number /\ ~exhausted /\ IsRecord(n, t)

\* The line does not decode.
Fails(line) == \E y \in Years : ~parse_line(line, true_division, y).ok

\* The place in fp of its first line that does not decode (0: all decode).
RECURSIVE FirstFailure(_)
FirstFailure(k) ==
    IF k > Len(fp) THEN 0
    ELSE IF Fails(fp[k]) THEN k
    ELSE FirstFailure(k + 1)

\* The slice [start - anchor, end - anchor) of one of the definitions falls
\* outside a payload of the given length.
OutOfRange(definitions, anchor, length) ==
    \E d \in 1..Len(definitions) :
        \/ definitions[d].bytes[1] - anchor < 0
        \/ definitions[d].bytes[2] - anchor > length

\* C2: when some line of the input does not decode, Reader.read ends by
\* raising InvalidIGCFileError at the first such line and returns no document.
C2_FailFast ==
    (status # "reading" /\ FirstFailure(1) > 0) =>
        /\ status = "raised"
        /\ raised = Some("InvalidIGCFileError")
        /\ document = None
        /\ line_number = FirstFailure(1)

\* C3: when the resolution of a B or K record that decoded fails, Reader.read
\* raises InvalidIGCFileError and returns no document.
C3_ResolutionFailureIsInvalidFile ==
    (status = "raised"
     /\ (JustHandled(line_number, "B") \/ JustHandled(line_number, "K"))) =>
        /\ raised = Some("InvalidIGCFileError")
        /\ document = None

\* C4: when the loop has ended without a failure and no H record was seen,
\* Reader.read returns a document whose header is the empty mapping.
C4_NoHeaderRecordReturnsEmptyHeader ==
    (exhausted /\ \A k \in 1..Len(outcomes) : ~IsRecord(k, "H")) =>
        /\ status = "returned"
        /\ document # None
        /\ DOMAIN document[1].header = {}

\* C6: a B (K) record handled while no definitions are active on its channel
\* is resolved without failure into the record without anchor and payload and
\* with no extension field.
C6_NoDefinitionsNoFields ==
    /\ (JustHandled(line_number, "B") /\ Latest("I", line_number - 1) = None) =>
          /\ status = "reading"
          /\ Len(fix_records) > 0
          /\ fix_records[Len(fix_records)] =
                Without(ValueOf(line_number),
                        {"start_index_extensions", "extensions_string"})
    /\ (JustHandled(line_number, "K") /\ Latest("J", line_number - 1) = None) =>
          /\ status = "reading"
          /\ Len(k_records) > 0
          /\ k_records[Len(k_records)] = [time |-> ValueOf(line_number).time]

\* C7: a B (K) record handled while some active definition's slice falls
\* outside its payload makes the resolution fail.
C7_OutOfRangeFails ==
    /\ (/\ JustHandled(line_number, "B")
        /\ Latest("I", line_number - 1) # None
        /\ OutOfRange(Latest("I", line_number - 1)[1], 35,
                      Len(ValueOf(line_number).extensions_string))) =>
          status = "raised"
    /\ (/\ JustHandled(line_number, "K")
        /\ Latest("J", line_number - 1) # None
        /\ OutOfRange(Latest("J", line_number - 1)[1], 7,
                      Len(ValueOf(line_number).value_string))) =>
          status = "raised"

(***************************************************************************)
(* Inputs that declare and redeclare extensions on both channels           *)
(***************************************************************************)
ChannelLines ==
    {"I013638GSP", "I023536FXA3638ENL",
     "J010810HDT", "J020708WDI0810HDT",
     FixPrefix \o "123", "K120000090",
     "HFPLTPILOT:Bob"}

InitChannels == Start(Streams(ChannelLines, MaxLines))

SpecChannels == InitChannels /\ [][Next]_vars

\* What a call returned, or None when it raised.
Returned(r) == IF r.ok THEN Some(r.val) ELSE None

\* The B records among the first k pairs yielded, in order, each resolved
\* with the definitions of the most recent I record before it.
RECURSIVE ExpectedFixRecords(_)
ExpectedFixRecords(k) ==
    IF k = 0 THEN <<>>
    ELSE IF IsRecord(k, "B")
    THEN Append(ExpectedFixRecords(k - 1),
                Returned(process_B_record(ValueOf(k), Latest("I", k - 1))))
    ELSE ExpectedFixRecords(k - 1)

\* The K records among the first k pairs yielded, in order, each resolved
\* with the definitions of the most recent J record before it.
RECURSIVE ExpectedKRecords(_)
ExpectedKRecords(k) ==
    IF k = 0 THEN <<>>
    ELSE IF IsRecord(k, "K")
    THEN Append(ExpectedKRecords(k - 1),
                Returned(process_K_record(ValueOf(k), Latest("J", k - 1))))
    ELSE ExpectedKRecords(k - 1)

\* The sequence of Some(x) for the members x of the sequence s.
Each(s) == [j \in 1..Len(s) |-> Some(s[j])]

\* The extension codes a list of definitions (or None) declares.
Codes(definitions) ==
    IF definitions = None THEN {}
    ELSE {definitions[1][d].extension_type : d \in 1..Len(definitions[1])}

\* The places, in order, of the records of type t among the pairs yielded.
Places(t) == SelectSeq([k \in 1..Len(outcomes) |-> k], LAMBDA k : IsRecord(k, t))

\* C1: in a document that was returned, every B record is resolved with
\* exactly the definitions of the most recent I record before it, and every
\* K record with exactly those of the most recent J record before it.
C1_MostRecentDeclarationApplies ==
    status = "returned" =>
        /\ Each(document[1].fix_records) = ExpectedFixRecords(Len(outcomes))
        /\ Each(document[1].k_records) = ExpectedKRecords(Len(outcomes))
        /\ \A j \in 1..Len(Places("B")) :
              DOMAIN document[1].fix_records[j] =
                  (DOMAIN ValueOf(Places("B")[j])
                      \ {"start_index_extensions", "extensions_string"})
                  \cup Codes(Latest("I", Places("B")[j] - 1))
        /\ \A j \in 1..Len(Places("K")) :
              DOMAIN document[1].k_records[j] =
                  {"time"} \cup Codes(Latest("J", Places("K")[j] - 1))

\* A document was returned in which a B record follows two I records that
\* declare different definitions.
C1_Witness ==
    /\ status = "returned"
    /\ \E k \in 1..Len(outcomes) :
          /\ IsRecord(k, "B")
          /\ \E i, j \in 1..(k - 1) :
                /\ i < j
                /\ IsRecord(i, "I")
                /\ IsRecord(j, "I")
                /\ ValueOf(i) # ValueOf(j)

(***************************************************************************)
(* LowLevelReader iterated on its own                                      *)
(***************************************************************************)
LowLevelLines ==
    {FixPrefix \o "123", "F1015002728", "HFDTE150715",
     "B1101355206343N00006198WA0058A00558", "X", ""}

InitLowLevel == Start(Streams(LowLevelLines, MaxLines))

NextLowLevel == NextLine \/ NextEnd

SpecLowLevel == InitLowLevel /\ [][NextLowLevel]_vars

\* C5: the reader has yielded one pair for each line it has taken, in line
\* order; each pair is a record without an error or an error without a
\* record; the error of the k-th line carries line number k; and the
\* iteration goes on after a failure: it ends only when every line of the
\* input has been taken.
C5_OnePairPerLine ==
    /\ Len(outcomes) = line_number
    /\ line_number <= Len(fp)
    /\ exhausted => Len(outcomes) = Len(fp)
    /\ \A k \in 1..Len(outcomes) :
          /\ (outcomes[k].record = None) # (outcomes[k].error = None)
          /\ outcomes[k].error # None => outcomes[k].error[1].line_number = k
          /\ \E y \in Years :
                outcomes[k] = yielded(fp[k], k, true_division, y)

\* The input has ended and a line that failed to decode was followed by a
\* line that decoded.
C5_Witness ==
    /\ exhausted
    /\ \E k \in 1..(Len(outcomes) - 1) :
          outcomes[k].error # None /\ outcomes[k + 1].record # None

(***************************************************************************)
(* Inputs made of header records                                           *)
(***************************************************************************)
HeaderLines ==
    {"HFPLTPILOT:Bob", "HOPLTPILOT:Al", "HFFXA035", "HFDTE150715",
     "HFFTYFRTYPE:LXNAV,LX8000F", "HFGPSuBLOX:TIM-LP,16,max9000m",
     "AXXXABC"}

InitHeader == Start(Streams(HeaderLines, MaxLines))

SpecHeader == InitHeader /\ [][Next]_vars

\* The k-th pair yielded is an H record that gives the field f.
GivesField(k, f) == IsRecord(k, "H") /\ f \in DOMAIN ValueOf(k)

\* The place of the last of the first k pairs yielded that is an H record
\* giving the field f (0: there is none).
RECURSIVE LastGiving(_, _)
LastGiving(f, k) ==
    IF k = 0 THEN 0
    ELSE IF GivesField(k, f) THEN k
    ELSE LastGiving(f, k - 1)

\* The fields the H records yielded give.
FieldsGiven == UNION {DOMAIN ValueOf(k) : k \in {j \in 1..Len(outcomes) : IsRecord(j, "H")}}

\* C8: the header of a document that was returned holds, for every field an
\* H record gave other than source, the value the last H record giving that
\* field gave, and never holds the key source.
C8_LaterHeaderOverwrites ==
    status = "returned" =>
        /\ "source" \notin DOMAIN document[1].header
        /\ DOMAIN document[1].header = FieldsGiven \ {"source"}
        /\ \A f \in DOMAIN document[1].header :
              document[1].header[f] = ValueOf(LastGiving(f, Len(outcomes)))[f]

\* A document was returned after two H records gave one field two values.
C8_Witness ==
    /\ status = "returned"
    /\ \E i, j \in 1..Len(outcomes) :
          /\ i < j
          /\ IsRecord(i, "H")
          /\ IsRecord(j, "H")
          /\ \E f \in (DOMAIN ValueOf(i) \cap DOMAIN ValueOf(j)) \ {"source"} :
                ValueOf(i)[f] # ValueOf(j)[f]

(***************************************************************************)
(* Inputs with records of every type                                       *)
(***************************************************************************)
\* The most lines an input with records of every type holds.
MaxRouteLines == 3

RouteLines ==
    {"AXXXABC", "AFLA001 extra", "C150715", "D1ABCD", "D2EFGH", "E104533PEV",
     "F1015002728", "GABCDEF", "HFPLTPILOT:Bob", "I013638GSP", FixPrefix \o "123",
     "J010810HDT", "K120000090", "LXXXhello"}

InitRoute == Start(Streams(RouteLines, MaxRouteLines))

SpecRoute == InitRoute /\ [][Next]_vars

\* The places, in order, of the lines of fp that begin with the tag t.
Tagged(t) ==
    SelectSeq([k \in 1..Len(fp) |-> k],
              LAMBDA k : Len(fp[k]) > 0 /\ SubSeq(fp[k], 1, 1) = t)

\* The values, in order, of the records yielded for the lines at places.
ValuesAt(places) == [j \in 1..Len(places) |-> ValueOf(places[j])]

\* The record holds every field of the value decoded from the line at place k,
\* but for the two fields that carry the extension payload.
CarriesLine(record, k, payload) ==
    \A f \in (DOMAIN ValueOf(k)) \ payload : f \in DOMAIN record /\ record[f] = ValueOf(k)[f]

MaxBlocks == 2

Tags == {"I", "J"}

Counts == {"00", "01", "02", "03"}

Blocks == {"3638GSP", "0810HDT", "AB41ENL", "39 4FXA"}

Tails == {"", "\n", "9", "  "}

\* The sequences of at most n blocks run together.
RECURSIVE Runs(_)
Runs(n) ==
    IF n = 0 THEN {""}
    ELSE Runs(n - 1) \cup {r \o b : r \in {q \in Runs(n - 1) : Len(q) = 7 * (n - 1)},
                                    b \in Blocks}

ProbeLines == {t \o c \o r \o e : t \in Tags, c \in Counts, r \in Runs(MaxBlocks), e \in Tails}

InitDecode ==
    /\ Construct({<<>>})
    /\ probe \in {Some(line) : line \in ProbeLines}
    /\ decoded = None

\* decode_I_record or decode_J_record, by the tag of the line, is called on
\* the line.
Decode ==
    /\ probe # None
    /\ decoded = None
    /\ decoded' = Some(IF SubSeq(probe[1], 1, 1) = "I"
                       THEN decode_I_record(probe[1])
                       ELSE decode_J_record(probe[1]))
    /\ UNCHANGED <<reader, locals, status, raised, document, probe>>

NextDecode == Decode

SpecDecode == InitDecode /\ [][NextDecode]_vars

\* The count field of the line, as a number.
CountOf(line) == PyInt(SubSeq(line, 2, 3)).val

\* The length of the line without the whitespace at its ends.
TrimmedLen(line) == Len(Strip(line))

\* The b-th 7-character block of the line, from column 3 on.
Block(line, b) == SubSeq(line, 7 * b - 3, 7 * b + 3)

\* The start and end columns of the b-th block are numbers.
Numbered(line, b) ==
    /\ PyInt(SubSeq(Block(line, b), 1, 2)).ok
    /\ PyInt(SubSeq(Block(line, b), 3, 4)).ok

\* The definition the b-th block encodes.
Definition(line, b) ==
    [bytes |-> <<PyInt(SubSeq(Block(line, b), 1, 2)).val,
                 PyInt(SubSeq(Block(line, b), 3, 4)).val>>,
     extension_type |-> SubSeq(Block(line, b), 5, 7)]

\* The line has the length its count field asks for.
RightLength(line) == TrimmedLen(line) = CountOf(line) * 7 + 3

\* C9 as stated: decoding an I or J record succeeds if and only if its
\* trimmed length is count*7+3.
C9_SucceedsIffRightLength ==
    decoded # None => (decoded[1].ok <=> RightLength(probe[1]))

\* C9: decoding an I or J record succeeds if and only if its trimmed length
\* is count*7+3 and the start and end columns of each of its count blocks
\* are numbers; it then yields the count definitions of the blocks in order
\* (None when count is 0); a line of any other trimmed length fails with
\* ValueError.
C9_SucceedsIffRightLengthAndNumbered ==
    decoded # None =>
        /\ decoded[1].ok <=>
              /\ RightLength(probe[1])
              /\ \A b \in 1..CountOf(probe[1]) : Numbered(probe[1], b)
        /\ decoded[1].ok =>
              /\ decoded[1].val.type = SubSeq(probe[1], 1, 1)
              /\ decoded[1].val.value =
                    IF CountOf(probe[1]) = 0 THEN None
                    ELSE Some([b \in 1..CountOf(probe[1]) |-> Definition(probe[1], b)])
        /\ ~RightLength(probe[1]) => decoded[1] = Raise("ValueError")

\* A line with one block and a line end was decoded into one definition.
C9_Witness ==
    /\ decoded # None
    /\ decoded[1].ok
    /\ CountOf(probe[1]) = 1
    /\ Len(probe[1]) > TrimmedLen(probe[1])

====
